---- MODULE Spec2Model ----
(***************************************************************************)
(* foxbot: calendar synchronisation, event classification, queries, the    *)
(* daily digest and the settings store, as a state machine.                *)
(*                                                                         *)
(* Strings are sequences of one-character strings, so that str.lower(),    *)
(* the substring test, date.isoformat() and string comparison are computed *)
(* and not assumed.  Dates are triples <<year, month, day>>.               *)
(***************************************************************************)
EXTENDS Integers, Sequences, FiniteSets, Bags, TLC

None == "None"

\* ------------------------------------------------------------------ strings

UpperCase == <<"A","B","C","D","E","F","G","H","I","J","K","L","M","N","O","P","Q","R","S","T","U","V","W","X","Y","Z">>

LowerCase == <<"a","b","c","d","e","f","g","h","i","j","k","l","m","n","o","p","q","r","s","t","u","v","w","x","y","z">>

\* the lower-case letter of each upper-case letter
LowerOf ==
    [u \in {UpperCase[i] : i \in DOMAIN UpperCase} |->
        LowerCase[CHOOSE i \in DOMAIN UpperCase : UpperCase[i] = u]]

\* str.lower() on one character (ASCII letters)
LowerChar(c) == IF c \in DOMAIN LowerOf THEN LowerOf[c] ELSE c

\* event_name.lower()
Lower(s) == [i \in DOMAIN s |-> LowerChar(s[i])]

\* Python's `keyword in text` on strings
Contains(text, keyword) ==
    \E k \in 0..(Len(text) - Len(keyword)) :
        SubSeq(text, k + 1, k + Len(keyword)) = keyword

\* code point order of the characters an ISO date is made of
IsoAlphabet == <<"-","0","1","2","3","4","5","6","7","8","9">>

Ord(c) == CHOOSE i \in DOMAIN IsoAlphabet : IsoAlphabet[i] = c

\* Python's a < b on strings: lexicographic by code point, a proper prefix is smaller
RECURSIVE StrLess(_, _)
StrLess(a, b) ==
    IF b = <<>> THEN FALSE
    ELSE IF a = <<>> THEN TRUE
    ELSE IF Head(a) # Head(b) THEN Ord(Head(a)) < Ord(Head(b))
    ELSE StrLess(Tail(a), Tail(b))

\* -------------------------------------------------------------------- dates

Digit(n) == IsoAlphabet[n + 2]

DigitValue(c) == Ord(c) - 2

\* date.isoformat(): YYYY-MM-DD, zero padded
IsoFormat(d) ==
    << Digit(d[1] \div 1000), Digit((d[1] \div 100) % 10), Digit((d[1] \div 10) % 10), Digit(d[1] % 10),
       "-", Digit(d[2] \div 10), Digit(d[2] % 10),
       "-", Digit(d[3] \div 10), Digit(d[3] % 10) >>

\* date.fromisoformat() of a YYYY-MM-DD string
FromIsoFormat(s) ==
    << 1000 * DigitValue(s[1]) + 100 * DigitValue(s[2]) + 10 * DigitValue(s[3]) + DigitValue(s[4]),
       10 * DigitValue(s[6]) + DigitValue(s[7]),
       10 * DigitValue(s[9]) + DigitValue(s[10]) >>

\* date >= date
DateGeq(a, b) ==
    \/ a[1] > b[1]
    \/ a[1] = b[1] /\ a[2] > b[2]
    \/ a[1] = b[1] /\ a[2] = b[2] /\ a[3] >= b[3]

IsLeap(y) == (y % 4 = 0 /\ y % 100 # 0) \/ y % 400 = 0

DaysInMonth(y, m) ==
    IF m = 2 THEN (IF IsLeap(y) THEN 29 ELSE 28)
    ELSE IF m \in {4, 6, 9, 11} THEN 30 ELSE 31

\* d + timedelta(days=1)
PlusOneDay(d) ==
    IF d[3] < DaysInMonth(d[1], d[2]) THEN <<d[1], d[2], d[3] + 1>>
    ELSE IF d[2] < 12 THEN <<d[1], d[2] + 1, 1>>
    ELSE <<d[1] + 1, 1, 1>>

\* ------------------------------------------------------- events.py constants

\* EVENT_TYPES, in the dict's insertion (= iteration) order
EVENT_TYPES ==
    << [type |-> "dress_day",         keyword |-> <<"d","r","e","s","s"," ","d","a","y">>],
       [type |-> "hall",              keyword |-> <<"h","a","l","l",":">>],
       [type |-> "late_start",        keyword |-> <<"l","a","t","e"," ","s","t","a","r","t">>],
       [type |-> "extended_homeroom", keyword |-> <<"e","x","t","e","n","d","e","d"," ","h","o","m","e","r","o","o","m">>] >>

PING_EVENT_TYPES == {"dress_day", "late_start", "extended_homeroom"}

\* ----------------------------------------------------- settings.py constants

\* DEFAULT_SETTINGS
DEFAULT_SETTINGS == [notification_channel_id |-> None, ical_url |-> None, ping_everyone |-> TRUE]

\* A JSON file on disk: missing, unparseable (truncated by a failed write), or
\* holding a value.  `data` is meaningful for kind "json" only.
AbsentFile(blank) == [kind |-> "absent", data |-> blank]

CorruptFile(blank) == [kind |-> "corrupt", data |-> blank]

JsonFile(value) == [kind |-> "json", data |-> value]

\* Python truthiness of an optional string or an optional channel id
\* (ids are non-zero, so only None and "" are falsy)
Truthy(v) == v \notin {None, ""}

\* ------------------------------------------------------------- the feed

\* A component of a parsed calendar: its name, its SUMMARY and its DTSTART
\* (missing, a date <<y, m, d>> or a datetime <<y, m, d, hh, mm>>).
Component(name, summary, dtstart) == [name |-> name, summary |-> summary, dtstart |-> dtstart]

\* component.get("dtstart") of a component without DTSTART
NoDtStart == <<>>

HallWinterAssembly == <<"H","a","l","l",":"," ","W","i","n","t","e","r"," ","A","s","s","e","m","b","l","y">>

MathClub == <<"M","a","t","h"," ","C","l","u","b">>

LateStartUpper == <<"L","A","T","E"," ","S","T","A","R","T">>

HallDressDay == <<"H","a","l","l",":"," ","D","r","e","s","s"," ","D","a","y">>

ExtendedHomeroom == <<"E","x","t","e","n","d","e","d"," ","H","o","m","e","r","o","o","m">>

\* A response body: one that Calendar.from_ical rejects, or a calendar
Garbage == [parses |-> FALSE, cal |-> <<>>]

Feed(cal) == [parses |-> TRUE, cal |-> cal]

\* ---------------------------------------------------- CalendarEvents methods

RECURSIVE GetEventTypeFrom(_, _)
GetEventTypeFrom(i, event_name_lower) ==
    IF i > Len(EVENT_TYPES) THEN None
    ELSE IF Contains(event_name_lower, EVENT_TYPES[i].keyword) THEN EVENT_TYPES[i].type
    ELSE GetEventTypeFrom(i + 1, event_name_lower)

GetEventTypeFirstOccurrence(event_name) ==
    LET low == Lower(event_name)
        pos(i) == CHOOSE k \in 0..Len(low) :
                     /\ \A j \in 1..Len(EVENT_TYPES[i].keyword) :
                            k + j <= Len(low) /\ low[k + j] = EVENT_TYPES[i].keyword[j]
                     /\ \A k2 \in 0..(k - 1) :
                            \E j \in 1..Len(EVENT_TYPES[i].keyword) :
                                k2 + j > Len(low) \/ low[k2 + j] # EVENT_TYPES[i].keyword[j]
        hits == {i \in DOMAIN EVENT_TYPES : Contains(low, EVENT_TYPES[i].keyword)}
    IN  IF hits = {} THEN None
        ELSE EVENT_TYPES[CHOOSE i \in hits : \A j \in hits : pos(i) <= pos(j)].type

\* CalendarEvents._get_event_type
GetEventType(event_name) ==
    LET event_name_lower == Lower(event_name)
    IN  GetEventTypeFrom(1, event_name_lower)

\* dtstart.dt, with datetime -> .date()
EventDate(dt) == IF Len(dt) > 3 THEN SubSeq(dt, 1, 3) ELSE dt

ParseOneKeepUndated(c) ==
    LET event_type == GetEventType(c.summary)
    IN  IF c.name = "VEVENT" /\ event_type # None
        THEN << [event_type  |-> event_type,
                 date        |-> IF c.dtstart = NoDtStart THEN IsoFormat(<<1970, 1, 1>>)
                                 ELSE IsoFormat(EventDate(c.dtstart)),
                 event_title |-> c.summary] >>
        ELSE <<>>

\* the body of the loop over cal.walk(): what one component appends
ParseOne(c) ==
    LET event_type == GetEventType(c.summary)
    IN  IF c.name = "VEVENT" /\ event_type # None /\ c.dtstart # NoDtStart
        THEN << [event_type  |-> event_type,
                 date        |-> IsoFormat(EventDate(c.dtstart)),
                 event_title |-> c.summary] >>
        ELSE <<>>

RECURSIVE ParseComponents(_)
ParseComponents(cal) ==
    IF cal = <<>> THEN <<>>
    ELSE LET rest == Tail(cal)
         IN  ParseOne(Head(cal)) \o ParseComponents(rest)

\* position at which a stable sort puts e into an already sorted list
RECURSIVE InsertByDate(_, _)
InsertByDate(sorted, e) ==
    IF sorted = <<>> THEN <<e>>
    ELSE IF StrLess(e.date, sorted[Len(sorted)].date)
         THEN LET front == SubSeq(sorted, 1, Len(sorted) - 1)
              IN  Append(InsertByDate(front, e), sorted[Len(sorted)])
         ELSE Append(sorted, e)

RECURSIVE StableSort(_)
StableSort(list) ==
    IF list = <<>> THEN <<>>
    ELSE LET front == StableSort(SubSeq(list, 1, Len(list) - 1))
         IN  InsertByDate(front, list[Len(list)])

SortUnsorted(list) == list

\* self.events.sort(key=lambda x: x["date"])
SortByDate(list) == StableSort(list)

ReplaceMerging(old, parsed) == old \o parsed

ReplaceCleared(old, parsed) == <<>>

\* self.events = [] followed by the appends of the loop
Replace(old, parsed) == parsed

\* CalendarEvents._save_to_file: the file after the write ("ok"), after open()
\* raised ("open_failed") or after the write raised part way ("write_failed")
SaveToFile(old_file, list, io) ==
    IF io = "ok" THEN JsonFile(list)
    ELSE IF io = "open_failed" THEN old_file
    ELSE CorruptFile(<<>>)

\* CalendarEvents._load_from_file
LoadFromFile(f) == IF f.kind = "json" THEN f.data ELSE <<>>

\* list[:limit]
Slice(list, limit) ==
    IF limit >= 0
    THEN SubSeq(list, 1, IF limit < Len(list) THEN limit ELSE Len(list))
    ELSE SubSeq(list, 1, IF Len(list) + limit > 0 THEN Len(list) + limit ELSE 0)

get_upcoming_after_today(list, event_type, limit, today) ==
    Slice(SelectSeq(list, LAMBDA e : /\ e.event_type = event_type
                                     /\ DateGeq(FromIsoFormat(e.date), today)
                                     /\ FromIsoFormat(e.date) # today),
          limit)

\* CalendarEvents.get_upcoming_by_type, date.today() being `today`
get_upcoming_by_type(list, event_type, limit, today) ==
    Slice(SelectSeq(list, LAMBDA e : /\ e.event_type = event_type
                                     /\ DateGeq(FromIsoFormat(e.date), today)),
          limit)

\* CalendarEvents.get_events_for_date
get_events_for_date(list, target_date) ==
    SelectSeq(list, LAMBDA e : e.date = IsoFormat(target_date))

\* CalendarEvents.get_tomorrow_events, date.today() being `today`
get_tomorrow_events(list, today) == get_events_for_date(list, PlusOneDay(today))

\* ------------------------------------------------------------ Settings methods

\* dict.get(key, default)
DictGet(d, key, default) == IF key \in DOMAIN d THEN d[key] ELSE default

\* self._settings[key] = value
DictSet(d, key, value) == [k \in DOMAIN d \cup {key} |-> IF k = key THEN value ELSE d[k]]

\* Settings._save: the settings file after json.dump succeeded, after open()
\* raised, or after the write raised part way (the IOError is printed)
SaveSettings(old_file, d, io) ==
    IF io = "ok" THEN JsonFile(d)
    ELSE IF io = "open_failed" THEN old_file
    ELSE CorruptFile(DEFAULT_SETTINGS)

\* Settings._load: the in-memory mapping a process gets from the file
LoadSettings(f) == IF f.kind = "json" THEN f.data ELSE DEFAULT_SETTINGS

\* Settings.notification_channel_id (getter)
ChannelId(d) ==
    IF Truthy(DictGet(d, "notification_channel_id", None))
    THEN DictGet(d, "notification_channel_id", None) ELSE None

\* Settings.ical_url (getter)
IcalUrl(d) == DictGet(d, "ical_url", None)

\* Settings.ping_everyone (getter)
PingEveryone(d) == DictGet(d, "ping_everyone", TRUE)

\* --------------------------------------------------------- fetch_and_parse

\* url = ical_url or settings.ical_url or os.getenv("ICAL_URL")
ResolveUrl(ical_url, d, environ) ==
    IF Truthy(ical_url) THEN ical_url
    ELSE IF Truthy(IcalUrl(d)) THEN IcalUrl(d)
    ELSE environ

StatusOkAny2xx(status) == status \in 200..299

\* the negation of `if response.status != 200`
StatusOk(status) == status = 200

ExceptClausesNoClientError == {"parse_error", "io_error"}

ExceptClausesNoParseError == {"client_error", "io_error"}

\* the exceptions the code catches: `except aiohttp.ClientError` around the
\* fetch, `except Exception` around Calendar.from_ical, `except IOError` in
\* _save_to_file
ExceptClauses == {"client_error", "parse_error", "io_error"}

\* What the environment hands to one call: the fetch raising a ClientError, or
\* a response with a status and a body
ClientError == [kind |-> "client_error", status |-> 0, body |-> Garbage]

Http(status, body) == [kind |-> "http", status |-> status, body |-> body]

\* no request was made
NoResponse == [kind |-> "none", status |-> 0, body |-> Garbage]

\* whether a call that got `resp` reaches `self.events = []`
Replaces(resp) == resp.kind = "http" /\ StatusOk(resp.status) /\ resp.body.parses

\* The part of fetch_and_parse after the last suspension point, on the list
\* `ev` and file `f`: what is left in memory and on disk, what is returned,
\* and whether an exception leaves the call.  `io` is the fate of the write.
FetchAndParseTail(ev, f, resp, io) ==
    IF resp.kind = "client_error"
    THEN [events |-> ev, file |-> f, ret |-> 0, raised |-> "client_error" \notin ExceptClauses]
    ELSE IF ~StatusOk(resp.status)
    THEN [events |-> ev, file |-> f, ret |-> 0, raised |-> FALSE]
    ELSE IF ~resp.body.parses
    THEN [events |-> ev, file |-> f, ret |-> 0, raised |-> "parse_error" \notin ExceptClauses]
    ELSE LET new == SortByDate(Replace(ev, ParseComponents(resp.body.cal)))
         IN  [events |-> new, file |-> SaveToFile(f, new, io), ret |-> Len(new),
              raised |-> io # "ok" /\ "io_error" \notin ExceptClauses]

\* ------------------------------------------------------------------ main.py

ShouldPingEither(d, event_type) == PingEveryone(d) \/ event_type \in PING_EVENT_TYPES

\* should_ping = settings.ping_everyone and event_type in PING_EVENT_TYPES
ShouldPing(d, event_type) == PingEveryone(d) /\ event_type \in PING_EVENT_TYPES

\* channel.send(content="@everyone", embed=embed) or channel.send(embed=embed)
Dispatch(d, event) ==
    [event |-> event, content |-> IF ShouldPing(d, event.event_type) THEN "@everyone" ELSE None]

ToggledSame(current) == current

\* settings.ping_everyone = not current
Toggled(current) == ~current

\* ------------------------------------------------------------------- bounds

\* longest calendar (in components) the pipeline specification fetches
MaxFeedLen == 3

\* largest limit a query is given
MaxLimit == 3

\* ------------------------------------------------------------ the environment

FeedA ==
    Feed(<< Component("VEVENT", HallWinterAssembly, <<2025, 12, 1>>),
            Component("VEVENT", MathClub, <<2025, 12, 2>>) >>)

FeedB ==
    Feed(<< Component("VEVENT", LateStartUpper, <<2025, 12, 2, 8, 30>>),
            Component("VEVENT", HallWinterAssembly, <<2025, 12, 2>>),
            Component("VEVENT", HallDressDay, <<2025, 12, 1>>) >>)

\* the bodies the calendar server serves
SampleBodies == {Garbage, FeedA, FeedB}

\* what a fetch may come back with: the request raising a ClientError, or a
\* response (200 with any body, 404 with an error page, 206 with a calendar)
Responses(bodies) ==
    {ClientError, Http(404, Garbage)}
        \cup {Http(200, b) : b \in bodies}
        \cup {Http(206, b) : b \in {c \in bodies : c.parses /\ Len(c.cal) = 2}}

\* an events file left by an earlier run
OldCache ==
    << [event_type |-> "extended_homeroom", date |-> IsoFormat(<<2025, 11, 30>>),
        event_title |-> ExtendedHomeroom] >>

InitEventFiles == {AbsentFile(<<>>), CorruptFile(<<>>), JsonFile(OldCache)}

InitSettingsFiles ==
    { AbsentFile(DEFAULT_SETTINGS),
      CorruptFile(DEFAULT_SETTINGS),
      JsonFile([notification_channel_id |-> "general", ical_url |-> "https://school/cal.ics",
                ping_everyone |-> TRUE]),
      JsonFile([notification_channel_id |-> "deleted", ical_url |-> None]) }

\* the channels bot.get_channel finds
KnownChannels == {"general"}

\* how a write of a JSON file can fail: open() raises, or the dump raises part way
IoFaults == {"open_failed", "write_failed"}

Todays == {<<2025, 11, 30>>, <<2025, 12, 1>>}

Tasks == {"startup", "daily", "refresh", "seturl"}

\* -------------------------------------------------------------------- state

VARIABLES
    events,        \* calendar.events
    file,          \* data/events.json
    settings,      \* settings._settings
    sfile,         \* data/settings.json
    environ,       \* os.getenv("ICAL_URL")
    web,           \* the bodies the calendar URL may return
    faults,        \* the ways a write of each file may fail in this environment
    pc,            \* where each caller of fetch_and_parse is
    current_loop,  \* daily_calendar_sync.current_loop: 0, odd (1) or even (2)
    digest,        \* the running daily_notification (n: its run count modulo 2)
    overtaken,     \* callers in flight when another call replaced the list
    last,          \* the call of fetch_and_parse that returned last
    toggled,       \* ping_everyone before each of the last two toggles, and the last write
    answer         \* the last call of get_upcoming_by_type and what it returned

vars == <<events, file, settings, sfile, environ, web, faults, pc, current_loop, digest, overtaken, last, toggled, answer>>

\* the fates of a write of the events file or of the settings file
IoOutcomes(which) == {"ok"} \cup faults[which]

\* on_ready's continuation, the loop's and the commands', after fetch_and_parse
\* returned or raised
AfterReturn(pcs, t, raised) ==
    IF t = "startup"
    THEN [pcs EXCEPT !["startup"] = IF raised THEN "failed" ELSE "done",
                     !["daily"] = IF ~raised /\ @ = "stopped" THEN "waiting" ELSE @]
    ELSE IF t = "daily"
    THEN [pcs EXCEPT !["daily"] = IF raised THEN "failed" ELSE "waiting"]
    ELSE [pcs EXCEPT ![t] = "idle"]

\* fetch_and_parse leaves caller t with result r
Return(t, r, resp, io) ==
    /\ events' = r.events
    /\ file' = r.file
    /\ pc' = AfterReturn(pc, t, r.raised)
    /\ overtaken' = IF Replaces(resp)
                    THEN {u \in Tasks \ {t} : pc[u] = "fetching"}
                    ELSE overtaken \ {t}
    /\ last' = [resp |-> resp, io |-> io,
                ret |-> r.ret, raised |-> r.raised, late |-> t \in overtaken]

\* fetch_and_parse up to its first suspension point
BeginSync(t) ==
    IF Truthy(ResolveUrl(None, settings, environ))
    THEN /\ pc' = [pc EXCEPT ![t] = "fetching"]
         /\ UNCHANGED <<events, file, overtaken, last, answer>>
    ELSE Return(t, [events |-> events, file |-> file, ret |-> 0, raised |-> FALSE],
                NoResponse, "none")

\* on_ready: the initial sync
OnReady ==
    /\ pc["startup"] = "idle"
    /\ BeginSync("startup")
    /\ UNCHANGED <<settings, sfile, environ, web, faults, current_loop, digest, toggled, answer>>

\* daily_calendar_sync: the 24 hour interval elapses
DailyFire ==
    /\ pc["daily"] = "waiting"
    /\ current_loop' = IF current_loop = 1 THEN 2 ELSE 1
    /\ BeginSync("daily")
    /\ UNCHANGED <<settings, sfile, environ, web, faults, digest, toggled, answer>>

\* /refresh-eventdata
RefreshEventdata ==
    /\ pc["refresh"] = "idle"
    /\ BeginSync("refresh")
    /\ UNCHANGED <<settings, sfile, environ, web, faults, current_loop, digest, toggled, answer>>

\* /set-calendar-url, up to `await interaction.response.defer`
SetCalendarUrl ==
    /\ pc["seturl"] = "idle"
    /\ \E io \in IoOutcomes("settings") :
        /\ settings' = DictSet(settings, "ical_url", "https://school/new.ics")
        /\ sfile' = SaveSettings(sfile, settings', io)
    /\ pc' = [pc EXCEPT !["seturl"] = "deferred"]
    /\ UNCHANGED <<events, file, environ, web, faults, current_loop, digest, overtaken, last, toggled, answer>>

\* /set-calendar-url, after the defer
SetCalendarUrlSync ==
    /\ pc["seturl"] = "deferred"
    /\ BeginSync("seturl")
    /\ UNCHANGED <<settings, sfile, environ, web, faults, current_loop, digest, toggled, answer>>

\* the fetch of caller t ends; the rest of fetch_and_parse runs without suspension
SyncComplete(t) ==
    /\ pc[t] = "fetching"
    /\ \E resp \in Responses(web) :
       \E io \in (IF Replaces(resp) THEN IoOutcomes("events") ELSE {"none"}) :
       \E r \in {FetchAndParseTail(events, file, resp, io)} :
            Return(t, r, resp, io)
    /\ UNCHANGED <<settings, sfile, environ, web, faults, current_loop, digest, toggled, answer>>

\* /set-notification-channel, run in channel "general"
SetNotificationChannel ==
    /\ \E io \in IoOutcomes("settings") :
        /\ settings' = DictSet(settings, "notification_channel_id", "general")
        /\ sfile' = SaveSettings(sfile, settings', io)
    /\ UNCHANGED <<events, file, environ, web, faults, pc, current_loop, digest, overtaken, last, toggled, answer>>

\* /toggle-ping-everyone
TogglePingEveryone ==
    /\ \E io \in IoOutcomes("settings") :
        /\ settings' = DictSet(settings, "ping_everyone", Toggled(PingEveryone(settings)))
        /\ sfile' = SaveSettings(sfile, settings', io)
        /\ toggled' = [before |-> IF Len(toggled.before) < 2
                                  THEN Append(toggled.before, PingEveryone(settings))
                                  ELSE <<toggled.before[2], PingEveryone(settings)>>,
                       io |-> io]
    /\ UNCHANGED <<events, file, environ, web, faults, pc, current_loop, digest, overtaken, last, answer>>

\* daily_notification fires at 17:00 on day `today`: up to the first send
DigestFire(today) ==
    /\ pc["startup"] = "done"
    /\ digest.pc = "idle"
    /\ digest' =
        IF ~Truthy(ChannelId(settings))
        THEN [n |-> 1 - digest.n, pc |-> "idle", status |-> "no_channel", queue |-> <<>>,
              sent |-> <<>>]
        ELSE IF ChannelId(settings) \notin KnownChannels
        THEN [n |-> 1 - digest.n, pc |-> "idle", status |-> "not_found", queue |-> <<>>,
              sent |-> <<>>]
        ELSE LET tomorrow_events == get_tomorrow_events(events, today)
             IN  IF tomorrow_events = <<>>
                 THEN [n |-> 1 - digest.n, pc |-> "idle", status |-> "sent", queue |-> <<>>,
                       sent |-> <<>>]
                 ELSE [n |-> 1 - digest.n, pc |-> "sending", status |-> "sent",
                       queue |-> Tail(tomorrow_events),
                       sent |-> <<Dispatch(settings, Head(tomorrow_events))>>]
    /\ UNCHANGED <<events, file, settings, sfile, environ, web, faults, pc, current_loop, overtaken, last, toggled, answer>>

\* daily_notification: `await channel.send` returns; the loop goes on
DigestSend ==
    /\ digest.pc = "sending"
    /\ digest' =
        IF digest.queue = <<>>
        THEN [digest EXCEPT !.pc = "idle"]
        ELSE [digest EXCEPT !.queue = Tail(@),
                            !.sent = Append(@, Dispatch(settings, Head(digest.queue)))]
    /\ UNCHANGED <<events, file, settings, sfile, environ, web, faults, pc, current_loop, overtaken, last, toggled, answer>>

\* Settings() and CalendarEvents() at import
Startup(bodies, io_faults, sfile0, file0, env0) ==
    /\ web = bodies
    /\ faults = io_faults
    /\ environ = env0
    /\ settings = LoadSettings(sfile0)
    /\ IF sfile0.kind = "absent"
       THEN \E io \in IoOutcomes("settings") : sfile = SaveSettings(sfile0, DEFAULT_SETTINGS, io)
       ELSE sfile = sfile0
    /\ file = file0
    /\ events = LoadFromFile(file0)
    /\ pc = [t \in Tasks |-> IF t = "daily" THEN "stopped" ELSE "idle"]
    /\ current_loop = 0
    /\ digest = [n |-> 0, pc |-> "idle", status |-> "none", queue |-> <<>>, sent |-> <<>>]
    /\ overtaken = {}
    /\ last = [resp |-> NoResponse, io |-> "none", ret |-> 0,
               raised |-> FALSE, late |-> FALSE]
    /\ toggled = [before |-> <<>>, io |-> "none"]
    /\ answer = [asked |-> FALSE, event_type |-> None, limit |-> 0, today |-> <<1970, 1, 1>>,
                 result |-> <<>>]

\* a call of get_upcoming_by_type (the /upcoming-* commands pass limit=5)
GetUpcomingByType(event_type, limit, today) ==
    /\ answer' = [asked |-> TRUE, event_type |-> event_type, limit |-> limit, today |-> today,
                  result |-> get_upcoming_by_type(events, event_type, limit, today)]
    /\ UNCHANGED <<events, file, settings, sfile, environ, web, faults, pc, current_loop, digest,
                   overtaken, last, toggled>>

EventTypeNames == {EVENT_TYPES[i].type : i \in DOMAIN EVENT_TYPES}

QueryDays == {<<2025, 12, 2>>, <<2025, 12, 10>>, <<2026, 1, 1>>}

\* The program: every trigger and command
Next ==
    \/ OnReady
    \/ DailyFire
    \/ RefreshEventdata
    \/ SetCalendarUrl
    \/ SetCalendarUrlSync
    \/ \E t \in Tasks : SyncComplete(t)
    \/ SetNotificationChannel
    \/ TogglePingEveryone
    \/ \E today \in Todays : DigestFire(today)
    \/ DigestSend
    \/ \E ty \in EventTypeNames, limit \in -1..MaxLimit, today \in QueryDays :
            GetUpcomingByType(ty, limit, today)

\* The product of all of them is beyond exhaustive search, so each group of
\* claims is checked under the program restricted to the callers and the
\* environment it is about.

Configured ==
    JsonFile([notification_channel_id |-> "general", ical_url |-> "https://school/cal.ics",
              ping_everyone |-> TRUE])

NoFaults == [events |-> {}, settings |-> {}]

\* ---- the four callers of fetch_and_parse, overlapping; writes of the events
\* ---- file may fail
SyncStarts ==
    { <<AbsentFile(DEFAULT_SETTINGS), JsonFile(OldCache), None>>,
      <<Configured, CorruptFile(<<>>), None>>,
      <<JsonFile([notification_channel_id |-> "deleted", ical_url |-> None]), AbsentFile(<<>>),
        "https://env/cal.ics">> }

SyncInit ==
    \E st \in SyncStarts :
        Startup(SampleBodies, [events |-> IoFaults, settings |-> {}], st[1], st[2], st[3])

NextSync ==
    \/ OnReady
    \/ DailyFire
    \/ RefreshEventdata
    \/ SetCalendarUrl
    \/ SetCalendarUrlSync
    \/ \E t \in Tasks : SyncComplete(t)

SyncSpec == SyncInit /\ [][NextSync]_vars

\* ---- the daily resync loop alone, with the timer's fairness
NextLoop ==
    \/ OnReady
    \/ DailyFire
    \/ \E t \in Tasks : SyncComplete(t)

LoopSpec == SyncInit /\ [][NextLoop]_vars /\ WF_vars(DailyFire)

\* ---- the digest and the settings commands; writes of the settings file may fail
NotifyInit ==
    \E sfile0 \in InitSettingsFiles, file0 \in InitEventFiles, env0 \in {None, "https://env/cal.ics"} :
        Startup({FeedB}, [events |-> {}, settings |-> IoFaults], sfile0, file0, env0)

NextNotify ==
    \/ OnReady
    \/ \E t \in Tasks : SyncComplete(t)
    \/ SetNotificationChannel
    \/ TogglePingEveryone
    \/ \E today \in Todays : DigestFire(today)
    \/ DigestSend

NotifySpec == NotifyInit /\ [][NextNotify]_vars

\* ---- one calendar, every calendar of up to MaxFeedLen components, fetched by
\* ---- /refresh-eventdata
PipelineComponents ==
    {Component("VEVENT", t, <<2025, 12, 10>>) :
        t \in {HallWinterAssembly, MathClub, LateStartUpper, HallDressDay, ExtendedHomeroom}}
    \cup {Component("VEVENT", HallWinterAssembly, d) :
        d \in {NoDtStart, <<2025, 12, 2>>, <<2026, 1, 5, 8, 30>>}}
    \cup {Component("VEVENT", LateStartUpper, <<2025, 12, 2, 14, 0>>),
          Component("VTODO", HallDressDay, <<2025, 12, 2>>)}

Calendars(n) == UNION {[1..k -> PipelineComponents] : k \in 0..n}

PipelineInit ==
    \E cal \in Calendars(MaxFeedLen) :
        Startup({Garbage, Feed(cal)}, [events |-> IoFaults, settings |-> {}], Configured,
                JsonFile(OldCache), None)

NextPipeline ==
    \/ RefreshEventdata
    \/ \E t \in Tasks : SyncComplete(t)

PipelineSpec == PipelineInit /\ [][NextPipeline]_vars

\* ---- get_upcoming_by_type on every list an earlier sync can have stored
QueryInit ==
    \E cal \in Calendars(MaxFeedLen) :
        Startup({Garbage}, NoFaults, Configured,
                JsonFile(SortByDate(ParseComponents(cal))), None)

NextQuery ==
    \E ty \in EventTypeNames, limit \in -1..MaxLimit, today \in QueryDays :
        GetUpcomingByType(ty, limit, today)

QuerySpec == QueryInit /\ [][NextQuery]_vars

\* ---- syncs from three callers overlapping with queries and the digest
ObserveDay == <<2025, 12, 2>>

ObserveInit ==
    Startup({FeedA, FeedB}, [events |-> {"write_failed"}, settings |-> {}], Configured,
            JsonFile(OldCache), None)

NextObserve ==
    \/ OnReady
    \/ DailyFire
    \/ RefreshEventdata
    \/ \E t \in Tasks : SyncComplete(t)
    \/ \E today \in Todays : DigestFire(today)
    \/ DigestSend
    \/ \E ty \in EventTypeNames : GetUpcomingByType(ty, MaxLimit, ObserveDay)

ObserveSpec == ObserveInit /\ [][NextObserve]_vars

\* ======================================================================
\* Claims
\* ======================================================================

\* a call of fetch_and_parse that made a request returns in this step (a call
\* that resolves no URL returns in the step that makes it)
Returned == \E t \in Tasks : pc[t] = "fetching" /\ pc'[t] # "fetching"

\* the call got no URL, a ClientError, a status other than 200 or a body that
\* does not parse
FailedBeforeReplace(call) ==
    \/ call.resp.kind \in {"none", "client_error"}
    \/ call.resp.kind = "http" /\ (call.resp.status # 200 \/ ~call.resp.body.parses)

\* the call got status 200 and a body that parses
GotCalendar(call) ==
    call.resp.kind = "http" /\ call.resp.status = 200 /\ call.resp.body.parses

\* the call's write of the events file failed
PersistFailed(call) == call.io \in IoFaults

\* argument (no caller passes one), settings ical_url and ICAL_URL are all empty
NoUrlSource ==
    /\ ("ical_url" \notin DOMAIN settings \/ settings["ical_url"] \in {None, ""})
    /\ environ \in {None, ""}

\* C1: a sync that fails because no URL resolves, because the status is not
\* 200, because the fetch raises a ClientError or because the body does not
\* parse returns 0 and leaves the in-memory list and the events file exactly
\* as they were; with no URL source no request is made at all.
C1_FailedSyncKeepsCache ==
    [][ /\ (Returned /\ FailedBeforeReplace(last'))
            => (events' = events /\ file' = file /\ last'.ret = 0 /\ ~last'.raised)
        /\ ~Returned
            => /\ events' = events /\ file' = file
               /\ last' # last => (NoUrlSource /\ last'.resp.kind = "none" /\ last'.ret = 0
                                    /\ ~last'.raised)
        /\ NoUrlSource => \A t \in Tasks : pc'[t] = "fetching" => pc[t] = "fetching"
      ]_vars

\* C1 witness: after a successful sync of FeedA, a sync answered 404 returned 0
\* and the list and the file still hold FeedA's event
C1_Witness ==
    /\ last.resp = Http(404, Garbage)
    /\ last.ret = 0
    /\ Len(events) = 1 /\ events[1].event_title = HallWinterAssembly
    /\ file = JsonFile(events)

\* C2 (as claimed): all four failure kinds, a failed write of the events file
\* included, leave the in-memory list untouched, return 0 and raise nothing.
C2_AllFourFailuresAlike ==
    [][ (Returned /\ (FailedBeforeReplace(last') \/ PersistFailed(last')))
            => (events' = events /\ last'.ret = 0 /\ ~last'.raised) ]_vars

\* C2 (amended): no failure kind raises; ConfigMissing, FetchFailed and
\* ParseFailed leave the list untouched and return 0; PersistFailed happens
\* after the replacement: the list is the new sorted list, its length is
\* returned, and the file is left as it was or truncated.
C2_FailuresSwallowed ==
    [][ (Returned \/ last' # last) =>
          /\ ~last'.raised
          /\ FailedBeforeReplace(last') => (events' = events /\ last'.ret = 0)
          /\ PersistFailed(last') =>
                /\ GotCalendar(last')
                /\ events' = StableSort(ParseComponents(last'.resp.body.cal))
                /\ last'.ret = Len(events')
                /\ file' \in {file, CorruptFile(<<>>)}
      ]_vars

\* C2 witness: the write of FeedB's three events failed part way; they are in
\* memory, 3 was returned and the file is truncated
C2_Witness ==
    /\ last.resp = Http(200, FeedB)
    /\ last.io = "write_failed"
    /\ Len(events) = 3 /\ last.ret = 3 /\ ~last.raised
    /\ file.kind = "corrupt"

\* ascending by date: each date is on or before the next one
SortedByDate(list) ==
    \A i \in 1..(Len(list) - 1) :
        DateGeq(FromIsoFormat(list[i + 1].date), FromIsoFormat(list[i].date))

\* C3: after a successful sync the in-memory list is sorted ascending by date,
\* whatever the order of the VEVENTs in the feed, and so is the list in the
\* events file, which is that list when the write succeeded.
C3_SortedAfterSync ==
    GotCalendar(last) =>
        /\ SortedByDate(events)
        /\ file.kind = "json" => SortedByDate(file.data)
        /\ last.io = "ok" => file = JsonFile(events)

\* C3 witness: a feed of three matching VEVENTs in descending date order was
\* synced and stored
C3_Witness ==
    /\ GotCalendar(last) /\ last.io = "ok"
    /\ Len(last.resp.body.cal) = 3 /\ Len(events) = 3
    /\ last.resp.body.cal[1].dtstart = <<2026, 1, 5, 8, 30>>
    /\ last.resp.body.cal[2].dtstart = <<2025, 12, 10>>
    /\ last.resp.body.cal[3].dtstart = <<2025, 12, 2>>
    /\ file = JsonFile(events)

\* the keyword table's types, in table order
TableOrder == <<"dress_day", "hall", "late_start", "extended_homeroom">>

KeywordOf(type) ==
    EVENT_TYPES[CHOOSE i \in DOMAIN EVENT_TYPES : EVENT_TYPES[i].type = type].keyword

\* the title, lower-cased, contains the keyword of `type`
Matches(title, type) == Contains(Lower(title), KeywordOf(type))

\* the components of a calendar that a sync is to store
Storable(cal) ==
    {i \in DOMAIN cal : /\ cal[i].name = "VEVENT"
                        /\ \E k \in DOMAIN TableOrder : Matches(cal[i].summary, TableOrder[k])
                        /\ cal[i].dtstart # NoDtStart}

\* the start date of a component as stored: the date part, as YYYY-MM-DD
StoredDate(c) == IsoFormat(<<c.dtstart[1], c.dtstart[2], c.dtstart[3]>>)

\* C5: a successful sync fully replaces the list: it holds exactly one record
\* (title and start date) for each VEVENT of the fetched feed whose title
\* matches a keyword and which has a start date, nothing else (nothing of the
\* list held before), and the count returned is its length.
C5_FullReplace ==
    GotCalendar(last) =>
        LET cal == last.resp.body.cal
            keys == {<<cal[i].summary, StoredDate(cal[i])>> : i \in Storable(cal)}
                        \cup {<<events[j].event_title, events[j].date>> : j \in DOMAIN events}
        IN  /\ \A key \in keys :
                 Cardinality({j \in DOMAIN events :
                                <<events[j].event_title, events[j].date>> = key})
                 = Cardinality({i \in Storable(cal) :
                                <<cal[i].summary, StoredDate(cal[i])>> = key})
            /\ Len(events) = Cardinality(Storable(cal))
            /\ last.ret = Len(events)
            /\ ~last.raised

\* C5 witness: of three fetched components (one with an unmatched title, one
\* without a start date) exactly one was stored and counted, and the event of
\* the old cache is gone
C5_Witness ==
    /\ GotCalendar(last)
    /\ Len(last.resp.body.cal) = 3
    /\ \E i \in 1..3 : last.resp.body.cal[i].summary = MathClub
    /\ \E i \in 1..3 : /\ last.resp.body.cal[i].summary = HallWinterAssembly
                       /\ last.resp.body.cal[i].dtstart = NoDtStart
    /\ Len(events) = 1 /\ last.ret = 1
    /\ events[1] # OldCache[1]

\* C6: every stored event has a non-null event_type, the first type in table
\* order (dress_day, hall, late_start, extended_homeroom) whose keyword is a
\* substring of the lower-cased title; a title with several keywords is stored
\* once, under the earliest; a title with none is not stored.
C6_TypeByTableOrder ==
    GotCalendar(last) =>
        /\ \A j \in DOMAIN events :
              /\ events[j].event_type # None
              /\ \E k \in DOMAIN TableOrder :
                    /\ events[j].event_type = TableOrder[k]
                    /\ Matches(events[j].event_title, TableOrder[k])
                    /\ \A m \in 1..(k - 1) : ~Matches(events[j].event_title, TableOrder[m])
        /\ \A i \in DOMAIN last.resp.body.cal :
              LET c == last.resp.body.cal[i]
              IN  /\ (\A k \in DOMAIN TableOrder : ~Matches(c.summary, TableOrder[k]))
                        => \A j \in DOMAIN events : events[j].event_title # c.summary
                  /\ Cardinality({j \in DOMAIN events : events[j].event_title = c.summary})
                        <= Cardinality({m \in DOMAIN last.resp.body.cal :
                                            last.resp.body.cal[m].summary = c.summary})

\* C6 witness: "Hall: Dress Day" (both keywords, "hall:" first in the title)
\* is stored once as dress_day, next to "LATE START" as late_start, and
\* "Math Club" is not stored
C6_Witness ==
    /\ GotCalendar(last)
    /\ Len(last.resp.body.cal) = 3 /\ Len(events) = 2
    /\ \E i \in 1..3 : last.resp.body.cal[i].summary = MathClub
    /\ \E j \in 1..2 : events[j].event_title = HallDressDay /\ events[j].event_type = "dress_day"
    /\ \E j \in 1..2 : events[j].event_title = LateStartUpper /\ events[j].event_type = "late_start"

\* the positions of the stored list that a query for (type, today) is to return:
\* the requested type, dated today or later (ISO dates compare as strings)
Upcoming(list, event_type, today) ==
    {i \in DOMAIN list : /\ list[i].event_type = event_type
                         /\ ~StrLess(list[i].date, IsoFormat(today))}

\* C4: for every stored list, type and limit >= 0, get_upcoming_by_type
\* returns at most limit events, each of the requested type and dated today
\* or later, and they are the first matching ones in stored-list order.
C4_UpcomingBounded ==
    (answer.asked /\ answer.limit >= 0) =>
        LET hits == Upcoming(events, answer.event_type, answer.today)
            res == answer.result
        IN  /\ Len(res) <= answer.limit
            /\ \A k \in DOMAIN res :
                  /\ res[k].event_type = answer.event_type
                  /\ DateGeq(FromIsoFormat(res[k].date), answer.today)
            /\ Len(res) = IF Cardinality(hits) < answer.limit THEN Cardinality(hits)
                          ELSE answer.limit
            /\ \A k \in DOMAIN res :
                  \E i \in hits : /\ Cardinality({j \in hits : j < i}) = k - 1
                                  /\ res[k] = events[i]

\* C4 witness: of three stored hall events, one before today and one dated
\* today, a query with limit 1 returned the one dated today
C4_Witness ==
    /\ answer.asked /\ answer.limit = 1 /\ answer.event_type = "hall"
    /\ answer.today = <<2025, 12, 10>>
    /\ Len(events) = 3
    /\ \A i \in 1..3 : events[i].event_type = "hall"
    /\ events[1].date = IsoFormat(<<2025, 12, 2>>)
    /\ events[3].date = IsoFormat(<<2026, 1, 5>>)
    /\ answer.result = <<events[2]>>

\* a /toggle-ping-everyone ran in this step
ToggleStep == toggled'.before # toggled.before

\* C7 (as claimed): after each single toggle the settings file holds the new
\* value, so a fresh load reads it.
C7_TogglePersists ==
    [][ ToggleStep =>
          /\ sfile'.kind = "json"
          /\ PingEveryone(LoadSettings(sfile')) = PingEveryone(settings')
      ]_vars

\* C7 (amended): a toggle negates ping_everyone in memory and leaves the other
\* keys as they were; two toggles in succession restore the value; after a
\* toggle whose write succeeded the file holds the new mapping and a fresh
\* load reads the toggled value; a failed write is swallowed and leaves the
\* file as it was or truncated.
C7_ToggleTwiceRestores ==
    [][ ToggleStep =>
          /\ PingEveryone(settings') = ~PingEveryone(settings)
          /\ Len(toggled'.before) = 2 => PingEveryone(settings') = toggled'.before[1]
          /\ DOMAIN settings' = DOMAIN settings \cup {"ping_everyone"}
          /\ \A k \in DOMAIN settings \ {"ping_everyone"} : settings'[k] = settings[k]
          /\ toggled'.io = "ok" =>
                /\ sfile' = JsonFile(settings')
                /\ PingEveryone(LoadSettings(sfile')) = ~PingEveryone(settings)
          /\ toggled'.io # "ok" => sfile' \in {sfile, CorruptFile(DEFAULT_SETTINGS)}
      ]_vars

\* C7 witness: two toggles, the second written, on a file that had no
\* ping_everyone key: the flag is back at its first value and a fresh load reads it
C7_Witness ==
    /\ Len(toggled.before) = 2 /\ toggled.io = "ok"
    /\ toggled.before = <<TRUE, FALSE>>
    /\ PingEveryone(settings) = TRUE
    /\ sfile = JsonFile(settings)
    /\ settings["notification_channel_id"] = "deleted"

\* a sync replaced the list in this step
ReplacedNow == Returned /\ GotCalendar(last')

\* C8 (as claimed): once overlapping syncs have all completed, the in-memory
\* list and the events file both equal the list of the sync that replaced last.
C8_LastWriterInMemoryAndFile ==
    (last.late /\ GotCalendar(last) /\ \A t \in Tasks : pc[t] # "fetching") =>
        /\ events = StableSort(ParseComponents(last.resp.body.cal))
        /\ file = JsonFile(events)

\* C8 (amended): the list and the file change only in the step in which a sync
\* replaces them, and then the list is that sync's complete sorted list (never a
\* mixture, nothing kept of the list before) and the file is that list if the
\* write succeeded; so after overlapping syncs both are the last writer's,
\* except that a failed write leaves the file as it was or truncated.
C8_LastWriterWins ==
    [][ /\ (events' # events \/ file' # file) => ReplacedNow
        /\ ReplacedNow =>
              /\ events' = StableSort(ParseComponents(last'.resp.body.cal))
              /\ last'.io = "ok" => file' = JsonFile(events')
              /\ last'.io # "ok" => file' \in {file, CorruptFile(<<>>)}
      ]_vars

\* C8 witness: a sync that was in flight while another one replaced the list
\* has replaced it in turn; no sync is in flight, and list and file are FeedA's
C8_Witness ==
    /\ last.late /\ GotCalendar(last) /\ last.io = "ok"
    /\ last.resp.body = FeedA
    /\ \A t \in Tasks : pc[t] # "fetching"
    /\ Len(events) = 1 /\ events[1].event_title = HallWinterAssembly
    /\ file = JsonFile(events)

\* a dispatch was made in this step
Dispatched ==
    \/ digest'.n # digest.n /\ digest'.sent # <<>>
    \/ digest'.n = digest.n /\ Len(digest'.sent) > Len(digest.sent)

\* C9: a dispatch of the daily digest carries @everyone if and only if the
\* event's type is dress_day, late_start or extended_homeroom and the ping
\* flag is enabled when it is made; with no notification channel configured
\* the digest dispatches nothing.
C9_PingOnlyUrgent ==
    [][ /\ Dispatched =>
              LET d == digest'.sent[Len(digest'.sent)]
              IN  /\ (d.content = "@everyone") <=>
                        (/\ d.event.event_type \in {"dress_day", "late_start", "extended_homeroom"}
                         /\ ("ping_everyone" \in DOMAIN settings => settings["ping_everyone"]))
                  /\ d.content \in {"@everyone", None}
        /\ ("notification_channel_id" \notin DOMAIN settings
                \/ settings["notification_channel_id"] = None)
              => (~Dispatched /\ digest'.sent = <<>>)
      ]_vars

\* C9 witness: with the flag enabled a digest for a late start and a hall has
\* pinged for the first and not for the second
C9_Witness ==
    /\ Len(digest.sent) = 2
    /\ digest.sent[1].event.event_type = "late_start" /\ digest.sent[1].content = "@everyone"
    /\ digest.sent[2].event.event_type = "hall" /\ digest.sent[2].content = None
    /\ PingEveryone(settings)

\* the resync of the current cycle has returned and it had failed
DailyCycleFailed ==
    /\ current_loop # 0
    /\ pc["daily"] # "fetching"
    /\ (FailedBeforeReplace(last) \/ PersistFailed(last))

\* C10: a resync cycle whose sync fails at any stage does not end the
\* schedule: the loop fires again and attempts a sync.
C10_ResyncRetries ==
    \A n \in {1, 2} : (DailyCycleFailed /\ current_loop = n) ~> (current_loop # n)

\* C10 witness: the first cycle's fetch raised a ClientError and the second
\* cycle's sync is in flight
C10_Witness ==
    /\ current_loop = 2
    /\ pc["daily"] = "fetching"
    /\ last.resp.kind = "client_error"

\* the lists a task may find in calendar.events under ObserveInit: the one
\* loaded at startup, or the complete sorted list of one calendar the URL serves
WholeLists ==
    {OldCache} \cup {StableSort(ParseComponents(b.cal)) : b \in {x \in web : x.parses}}

\* the events a run of the digest has sent or is still to send, in order
DigestItems(d) == [i \in 1..Len(d.sent) |-> d.sent[i].event] \o d.queue

\* C11: in every interleaving of syncs with queries and the daily digest, at
\* every point where another task can run calendar.events is the list loaded
\* at startup or the complete, sorted list of a single sync (never a cleared or
\* partly rebuilt one), it changes only in the step in which a sync replaces
\* it, and so every answer of get_upcoming_by_type and every run of the digest
\* (which reads the list once and keeps what it read while syncs go on between
\* its sends) is computed from one such whole list.
C11_NoPartialListObserved ==
    /\ [](/\ events \in WholeLists
          /\ SortedByDate(events)
          /\ answer.asked =>
                \E list \in WholeLists :
                    answer.result = get_upcoming_by_type(list, answer.event_type,
                                                         answer.limit, answer.today)
          /\ \E list \in WholeLists, today \in Todays :
                DigestItems(digest) \in {<<>>, get_tomorrow_events(list, today)})
    /\ [][ /\ events' # events =>
                /\ ReplacedNow
                /\ events' = StableSort(ParseComponents(last'.resp.body.cal))
                /\ Len(events') = Cardinality(Storable(last'.resp.body.cal))
           /\ answer' # answer =>
                answer'.result = get_upcoming_by_type(events, answer'.event_type,
                                                      answer'.limit, answer'.today)
           /\ (digest'.n # digest.n /\ digest'.status = "sent") =>
                \E today \in Todays : DigestItems(digest') = get_tomorrow_events(events, today)
           /\ (digest'.n = digest.n) => DigestItems(digest') = DigestItems(digest)
         ]_vars

\* C11 witness: a digest that read FeedB's list has sent the late start and
\* still has the hall to send; meanwhile a sync has replaced the list by
\* FeedA's, another sync is in flight, and a query made before the replacement
\* was answered from FeedB's list
C11_Witness ==
    /\ digest.pc = "sending"
    /\ Len(digest.sent) = 1 /\ digest.sent[1].event.event_title = LateStartUpper
    /\ Len(digest.queue) = 1 /\ digest.queue[1].event_title = HallWinterAssembly
    /\ events = StableSort(ParseComponents(FeedA.cal))
    /\ Len(events) = 1
    /\ \E t \in Tasks : pc[t] = "fetching"
    /\ answer.asked /\ answer.event_type = "late_start" /\ Len(answer.result) = 1

====
